---------------------------- MODULE Spec2Model ----------------------------
(***************************************************************************)
(* A model of the capture -> replay -> extraction pipeline of              *)
(* automated-app-testing:                                                  *)
(*   - RequestReplayer (src/src/request_replayer.py)                       *)
(*   - the Keyword Driver search_all_keywords, in its two variants         *)
(*     (src/src/api_searcher.py and src/api_searcher.py)                   *)
(*   - the Extractor extract_all_products (src/src/extract_products.py)    *)
(*   - the Capture Addon RequestCapture (src/src/pagoda_proxy.py)          *)
(*   - the workflow start_automation_workflow (src/src/run_automation.py)  *)
(* Each component has its own specification: SpecReplay, SpecBatch,        *)
(* SpecDriver, SpecExtract, SpecCapture, SpecHooks, SpecWorkflow;          *)
(* SpecReaders joins the runs of the two readers of the capture log.       *)
(***************************************************************************)
EXTENDS Naturals, Sequences, FiniteSets, TLC

VARIABLES
    capture_file,       \* content of captured_requests.json
    \* ---- one call of RequestReplayer.replay_request
    request_data,       \* the captured record handed to replay_request
    modified_params,    \* the override mapping (or None)
    rr_pc,              \* "call" before the call, "done" after it
    rr_out,             \* what the call did: see replay_request
    rr_resp,            \* the answer the HTTP exchange of the call got
    \* ---- one call of RequestReplayer.replay_with_modifications
    param_variations,   \* the input sequence of override mappings
    rb_pc,              \* "start", "loop", "done"
    captured,           \* the loaded records
    rb_i, rb_j,         \* position of the two nested for loops
    results,            \* the list `results`
    rb_ret,             \* the value returned
    rb_issued,          \* history: <<i, j>> of every replay_request call
    rb_rets,            \* history: every value other than None a replay_request call returned
    rb_http,            \* history: number of HTTP requests issued
    \* ---- one run of the Keyword Driver, search_all_keywords
    variant,            \* "src": src/src/api_searcher.py, "root": src/api_searcher.py
    SEARCH_KEYWORDS,    \* the fixed ordered keyword list
    traffic_flow,       \* content of traffic.flow (read by the "src" variant)
    result_files,       \* search_results_<keyword>.json, per keyword
    d_pc,               \* "convert", "start", "loop", "done"
    original_request,   \* captured[0]
    captured_requests,  \* the list of requests issued this run
    d_k,                \* position of the keyword loop
    d_end,              \* how the run ended: "", "return", "except", "end"
    d_baseline,         \* history: captured[0] as it was loaded
    d_iters,            \* history: one entry per non-baseline keyword handled
    \* ---- runs of the Extractor, extract_all_products
    x_files,            \* the search_results_*.json files on disk, by name
    x_catalog,          \* content of products.json
    x_pc,               \* "start", "scan", "done"
    x_todo,             \* the names glob returned that are still to scan
    products,           \* the defaultdict `products`
    existing_items,     \* the set `existing_items`
    x_end,              \* how the run ended: "", "ok", "error"
    x_run,              \* "first" or "second" run over the same files
    x_scan,             \* history: the names scanned by this run, in order
    x_before,           \* history: products.json as this run found it
    x_first,            \* history: how the first run ended, what it wrote
    \* ---- the hooks of the Capture Addon, RequestCapture
    self_captured_requests, \* the list self.captured_requests
    search_results,     \* content of search_results.json, the snapshot
    p_n,                \* number of hook invocations so far
    p_last,             \* history: the last hook invocation, see Hooked
    p_recent,           \* history: the body of the last qualifying response
    p_stored,           \* history: the body last written to the snapshot
    \* ---- request-hook invocations of the Capture Addon that interleave
    h_flow,             \* the transaction of each invocation
    h_pc,               \* per invocation: "called", "appended", "returned",
                        \* "raised" (before the append), "write_failed"
    h_steps,            \* history: the invocation of each step taken, in order
    \* ---- one call of start_automation_workflow
    w_env,              \* what the environment will do: see Environments
    w_pc,               \* "prepare", "automation", "cleanup", "done"
    w_prepared,         \* what prepare_for_pagoda did: "", "True", "False", "raise"
    w_automation,       \* what start_automation returned: "", "True", "False"
    w_driver,           \* pagoda.driver is set
    w_quit,             \* what pagoda.driver.quit() did: "" (not called), "ok", "raise"
    w_cleanup,          \* number of calls of checker.cleanup()
    w_ret               \* the value returned: "", "True", "False"

replayVars == <<request_data, modified_params, rr_pc, rr_out, rr_resp>>
batchVars  == <<param_variations, rb_pc, captured, rb_i, rb_j,
                results, rb_ret, rb_issued, rb_rets, rb_http>>
driverVars == <<variant, SEARCH_KEYWORDS, traffic_flow, result_files, d_pc,
                original_request, captured_requests, d_k, d_end, d_baseline, d_iters>>
extractVars == <<x_files, x_catalog, x_pc, x_todo, products, existing_items,
                 x_end, x_run, x_scan, x_before, x_first>>
captureVars == <<self_captured_requests, search_results, p_n, p_last,
                 p_recent, p_stored>>
hookVars == <<h_flow, h_pc, h_steps>>
workflowVars == <<w_env, w_pc, w_prepared, w_automation, w_driver, w_quit,
                  w_cleanup, w_ret>>
vars == <<capture_file, replayVars, batchVars, driverVars, extractVars, captureVars,
          hookVars, workflowVars>>

-----------------------------------------------------------------------------
(* Bounds of the model.                                                    *)
MaxCaptured   == 2      \* records in a capture file
MaxVariations == 2      \* entries of param_variations
MaxKeywords   == 3      \* entries of SEARCH_KEYWORDS
MaxItems      == 2      \* items of one onSaleList
MaxFlows      == 3      \* hook invocations of the Capture Addon

SeqsUpTo(S, n) == UNION {[1..k -> S] : k \in 0..n}

-----------------------------------------------------------------------------
(* Python values.  A decoded JSON value is [t, items]: t is "none" (None), *)
(* "dict" (items: the <<key, value>> pairs in insertion order, keys        *)
(* unique) or "list" (items: <<index, value>> pairs).                      *)
None == [t |-> "none", items |-> <<>>]

\* bool(value): None, {} and [] are falsy
Truthy(v) == v.t # "none" /\ Len(v.items) > 0

\* the mapping a dict's items stand for (dict equality ignores order)
AsMap(items) ==
    [k \in {items[n][1] : n \in DOMAIN items} |->
        items[CHOOSE n \in DOMAIN items :
                 /\ items[n][1] = k
                 /\ \A m \in DOMAIN items : items[m][1] = k => m <= n][2]]

\* d[key] = value on an insertion-ordered dict
SetItem(items, key, value) ==
    IF \E n \in DOMAIN items : items[n][1] = key
    THEN [n \in DOMAIN items |->
             IF items[n][1] = key THEN <<key, value>> ELSE items[n]]
    ELSE Append(items, <<key, value>>)

(* A JSON text is [kind, pairs, compact]: kind "obj" (pairs as written,    *)
(* a key may repeat), "arr", "null", "bad" (not JSON), "empty" (the empty  *)
(* string); kind "none" stands for a body that is None, not a string.      *)
(* compact tells the separators apart: "," ":" against ", " ": ".          *)
RECURSIVE ObjectPairs(_)
ObjectPairs(pairs) ==
    IF pairs = <<>> THEN <<>>
    ELSE SetItem(ObjectPairs(SubSeq(pairs, 1, Len(pairs) - 1)),
                 pairs[Len(pairs)][1], pairs[Len(pairs)][2])

\* json.loads(text) / response.json(): [err, val]
\* err is "" or the exception raised
json_loads(text) ==
    CASE text.kind = "obj"  -> [err |-> "", val |-> [t |-> "dict", items |-> ObjectPairs(text.pairs)]]
      [] text.kind = "arr"  -> [err |-> "", val |-> [t |-> "list", items |-> text.pairs]]
      [] text.kind = "null" -> [err |-> "", val |-> None]
      [] text.kind = "none" -> [err |-> "TypeError", val |-> None]
      [] OTHER              -> [err |-> "JSONDecodeError", val |-> None]

\* json.dumps(value, ensure_ascii=False): the default separators are ", " and ": "
json_dumps(v) ==
    [kind |-> CASE v.t = "dict" -> "obj" [] v.t = "list" -> "arr" [] OTHER -> "null",
     pairs |-> v.items, compact |-> FALSE]

NoText == [kind |-> "none", pairs |-> <<>>, compact |-> FALSE]
EmptyText == [kind |-> "empty", pairs |-> <<>>, compact |-> FALSE]
BadText == [kind |-> "bad", pairs |-> <<>>, compact |-> FALSE]

\* bool(body): None and "" are falsy
TextTruthy(text) == text.kind \notin {"none", "empty"}

-----------------------------------------------------------------------------
(* Query-parameter mappings: [none, m]; none = TRUE is Python None,        *)
(* otherwise m is the dict as a function from keys to values.              *)
ParamKeys == {"page", "size"}
ParamVals == {"1", "2"}
EmptyMap == [k \in {} |-> ""]
ParamMaps == UNION {[D -> ParamVals] : D \in SUBSET ParamKeys}
NoneParams == [none |-> TRUE, m |-> EmptyMap]
ParamValues == {NoneParams} \cup {[none |-> FALSE, m |-> f] : f \in ParamMaps}

\* bool(mapping): None and {} are falsy
ParamsTruthy(p) == ~p.none /\ DOMAIN p.m # {}

\* a bug: keys already present keep their value (setdefault, not update)
dict_update_keep(p, o) ==
    [k \in DOMAIN p \cup DOMAIN o |-> IF k \in DOMAIN p THEN p[k] ELSE o[k]]

\* params.update(modified_params)
dict_update(p, o) ==
    [k \in DOMAIN p \cup DOMAIN o |-> IF k \in DOMAIN o THEN o[k] ELSE p[k]]

(* A captured record is a dict: `has` is the set of keys present; the      *)
(* value of an absent key is never read (it holds a fixed filler).         *)
Fields == {"method", "url", "headers", "params", "body"}
required_fields == <<"method", "url", "headers">>

SearchUrl == "https://api/searchGoods"
Headers == [k \in {"token"} |-> "t"]

\* the first required field missing from the record, or "" (lines 28-32)
MissingField(req) ==
    IF \E n \in DOMAIN required_fields : required_fields[n] \notin req.has
    THEN required_fields[CHOOSE n \in DOMAIN required_fields :
            /\ required_fields[n] \notin req.has
            /\ \A m \in DOMAIN required_fields :
                  required_fields[m] \notin req.has => n <= m]
    ELSE ""

NoKwargs == [method |-> "", url |-> "", headers |-> Headers,
             hasParams |-> FALSE, params |-> EmptyMap,
             hasData |-> FALSE, data |-> NoText]

\* lines 35-49: the keyword arguments of requests.request
BuildKwargs(req, mod) ==
    [method |-> req.method, url |-> req.url, headers |-> req.headers,
     hasParams |-> "params" \in req.has,
     params |-> IF "params" \in req.has
                THEN LET params == IF ParamsTruthy(req.params) THEN req.params.m ELSE EmptyMap
                     IN IF ParamsTruthy(mod) THEN dict_update(params, mod.m) ELSE params
                ELSE EmptyMap,
     hasData |-> "body" \in req.has /\ TextTruthy(req.body),
     data |-> IF "body" \in req.has /\ TextTruthy(req.body) THEN req.body ELSE NoText]

\* line 43: params is a copy, so update() leaves the record's own mapping alone
RecordAfterCall(req, mod) == req

(* The outcome of a call: ret the value returned, raised whether an        *)
(* exception left the function, sent the HTTP requests issued (their       *)
(* kwargs), after the record as the call left it, log the error logged.    *)
Outcome(ret, raised, sent, after, log) ==
    [ret |-> ret, raised |-> raised, sent |-> sent, after |-> after, log |-> log]

(* The HTTP exchange as the environment decides it: requests.request       *)
(* raises (exc), or answers with a status and a body text.                 *)
StatusCodes == {200, 201, 404, 500}
NoResponse == [exc |-> TRUE, status |-> 0, text |-> NoText]

\* a bug: the status is not looked at
HandleResponse_IgnoreStatus(kwargs, after, resp) ==
    IF resp.exc
    THEN Outcome(None, TRUE, <<kwargs>>, after, "")
    ELSE LET j == json_loads(resp.text)
         IN IF j.err = "" THEN Outcome(j.val, FALSE, <<kwargs>>, after, "")
            ELSE Outcome(None, FALSE, <<kwargs>>, after, "Failed to parse response as JSON")

\* a bug: a body that is not JSON yields an empty dict
HandleResponse_EmptyOnBadJson(kwargs, after, resp) ==
    IF resp.exc
    THEN Outcome(None, TRUE, <<kwargs>>, after, "")
    ELSE IF resp.status # 200
    THEN Outcome(None, FALSE, <<kwargs>>, after, "Request failed with status code")
    ELSE LET j == json_loads(resp.text)
         IN IF j.err = "" THEN Outcome(j.val, FALSE, <<kwargs>>, after, "")
            ELSE Outcome([t |-> "dict", items |-> <<>>], FALSE, <<kwargs>>, after, "")

\* lines 51-63: the request is made once and the response validated;
\* raised = TRUE is an exception leaving the try block.  A body that is not
\* JSON gives None whichever except clause catches the decoder's exception
\* (line 61, or line 65 when it is not a json.JSONDecodeError).
HandleResponse(kwargs, after, resp) ==
    IF resp.exc
    THEN Outcome(None, TRUE, <<kwargs>>, after, "")
    ELSE IF resp.status # 200
    THEN Outcome(None, FALSE, <<kwargs>>, after, "Request failed with status code")
    ELSE LET j == json_loads(resp.text)
         IN IF j.err = "" THEN Outcome(j.val, FALSE, <<kwargs>>, after, "")
            ELSE Outcome(None, FALSE, <<kwargs>>, after, "Failed to parse response as JSON")

\* a bug: no validation, the fields read with request_data.get(field)
replay_try_unvalidated(req, mod, resp) ==
    HandleResponse(BuildKwargs(req, mod), RecordAfterCall(req, mod), resp)

\* lines 27-63, the body of the try block
replay_try(req, mod, resp) ==
    IF MissingField(req) # ""
    THEN Outcome(None, FALSE, <<>>, req, "Missing required field")
    ELSE HandleResponse(BuildKwargs(req, mod), RecordAfterCall(req, mod), resp)

\* lines 24-67: except Exception turns every exception into a logged None
replay_request(req, mod, resp) ==
    LET o == replay_try(req, mod, resp)
    IN IF o.raised
       THEN Outcome(None, FALSE, o.sent, o.after, "Failed to replay request")
       ELSE o

-----------------------------------------------------------------------------
(* Inputs.                                                                 *)
ObjText(pairs, compact) == [kind |-> "obj", pairs |-> pairs, compact |-> compact]
ArrText(pairs) == [kind |-> "arr", pairs |-> pairs, compact |-> FALSE]
NullText == [kind |-> "null", pairs |-> <<>>, compact |-> FALSE]

SearchBody == ObjText(<<(<<"keywords", "pingguo">>), (<<"page", "1">>)>>, TRUE)

ResponseTexts ==
    {BadText, EmptyText, NullText,
     ObjText(<<>>, TRUE), ObjText(<<(<<"code", "0">>)>>, TRUE),
     ObjText(<<(<<"code", "0">>), (<<"msg", "ok">>), (<<"code", "1">>)>>, FALSE),
     ArrText(<<>>), ArrText(<<(<<"0", "x">>)>>)}

Responses ==
    {NoResponse} \cup
    {[exc |-> FALSE, status |-> s, text |-> t] : s \in StatusCodes, t \in ResponseTexts}

\* a record with the keys `has`; absent keys hold the filler
Record(has, params, body) ==
    [has |-> has,
     method |-> IF "method" \in has THEN "POST" ELSE "",
     url |-> IF "url" \in has THEN SearchUrl ELSE "",
     headers |-> Headers,
     params |-> IF "params" \in has THEN params ELSE NoneParams,
     body |-> IF "body" \in has THEN body ELSE NoText]

Bodies == {NoText, EmptyText, SearchBody}

Requests ==
    {Record(has, p, b) : has \in SUBSET Fields, p \in ParamValues, b \in Bodies}

(* captured_requests.json as text: a JSON array of objects.  An object is  *)
(* [keys, url, method, headers, params, body]: keys are the member names   *)
(* in the order written, each member a JSON value [j, v] with j the kind   *)
(* of value (string, object, null) and v what it spells; the member of an  *)
(* absent key is never read.                                               *)
JsonString(s) == [j |-> "string", v |-> s]
JsonObject(d) == [j |-> "object", v |-> d]
JsonNull(filler) == [j |-> "null", v |-> filler]

\* a bug: None is written as the empty string
json_dump_record_NoneAsEmpty(rec) ==
    LET order == <<"url", "method", "headers", "params", "body">>
    IN [keys |-> SelectSeq(order, LAMBDA f : f \in rec.has),
        url |-> JsonString(rec.url),
        method |-> JsonString(rec.method),
        headers |-> JsonObject(rec.headers),
        params |-> IF rec.params.none THEN JsonNull(NoneParams)
                   ELSE JsonObject(rec.params),
        body |-> JsonString(IF rec.body.kind = "none" THEN EmptyText ELSE rec.body)]

\* json.dump of one record: a dict becomes an object with its keys in
\* insertion order, a str a string, None null
json_dump_record(rec) ==
    LET order == <<"url", "method", "headers", "params", "body">>
    IN [keys |-> SelectSeq(order, LAMBDA f : f \in rec.has),
        url |-> JsonString(rec.url),
        method |-> JsonString(rec.method),
        headers |-> JsonObject(rec.headers),
        params |-> IF rec.params.none THEN JsonNull(NoneParams)
                   ELSE JsonObject(rec.params),
        body |-> IF rec.body.kind = "none" THEN JsonNull(NoText)
                 ELSE JsonString(rec.body)]

\* json.dump(list, f, ensure_ascii=False, indent=2): the array of the objects
json_dump_records(records) ==
    [n \in DOMAIN records |-> json_dump_record(records[n])]

\* json.load of one object: a dict with the members' names as keys, null
\* becomes None
json_load_record(obj) ==
    LET has == {obj.keys[n] : n \in DOMAIN obj.keys}
    IN [has |-> has,
        method |-> IF "method" \in has THEN obj.method.v ELSE "",
        url |-> IF "url" \in has THEN obj.url.v ELSE "",
        headers |-> obj.headers.v,
        params |-> IF "params" \in has /\ obj.params.j # "null"
                   THEN obj.params.v ELSE NoneParams,
        body |-> IF "body" \in has /\ obj.body.j # "null"
                 THEN obj.body.v ELSE NoText]

\* json.load(f) of the array
json_load_records(array) ==
    [n \in DOMAIN array |-> json_load_record(array[n])]

-----------------------------------------------------------------------------
(* The Keyword Driver's inputs and files.                                  *)
\* the keywords in pinyin: pingguo is the baseline keyword of lines 122-131
BaselineKeyword == "pingguo"
Keywords == {"pingguo", "xiangjiao", "chengzi", "putao"}

\* the lists without repetition of at most MaxKeywords keywords
KeywordLists ==
    {l \in SeqsUpTo(Keywords, MaxKeywords) :
        \A a, b \in DOMAIN l : a # b => l[a] # l[b]}

NoFile == NoText
NoResultFiles == [k \in Keywords |-> NoFile]
NoRecord == Record({}, NoneParams, NoText)
MissingCapture == [state |-> "missing", records |-> <<>>]

DriverIdle ==
    /\ variant = "none"
    /\ SEARCH_KEYWORDS = <<>>
    /\ traffic_flow = [state |-> "missing", flows |-> <<>>]
    /\ result_files = NoResultFiles
    /\ d_pc = "idle"
    /\ original_request = NoRecord
    /\ captured_requests = <<>>
    /\ d_k = 0
    /\ d_end = ""
    /\ d_baseline = NoRecord
    /\ d_iters = <<>>

\* products.json: state "missing", "ok" (map: the mapping it holds, from
\* keyword to product list) or "invalid" (a write that failed part way)
NoCatalog == [state |-> "missing", map |-> <<>>]
NoRun == [end |-> "", catalog |-> NoCatalog, scan |-> <<>>]

ExtractIdle ==
    /\ x_files = <<>>
    /\ x_catalog = NoCatalog
    /\ x_pc = "idle"
    /\ x_todo = {}
    /\ products = <<>>
    /\ existing_items = {}
    /\ x_end = ""
    /\ x_run = "first"
    /\ x_scan = <<>>
    /\ x_before = NoCatalog
    /\ x_first = NoRun

(* What a hook invocation did: hook ("request", "response"), flow the       *)
(* transaction, raised whether an exception left the hook, wrote whether   *)
(* a file was opened for writing, log the message logged, and the list,    *)
(* the capture log and the snapshot as they were before.                   *)
Hooked(hook, flow, raised, wrote, log, list, file, snapshot) ==
    [hook |-> hook, flow |-> flow, raised |-> raised, wrote |-> wrote, log |-> log,
     list |-> list, file |-> file, snapshot |-> snapshot]
NoResponseContent == [present |-> FALSE, content |-> NoText]
NoFlow == [url |-> "", method |-> "", content |-> NoText, response |-> NoResponseContent]
NoHook == Hooked("", NoFlow, FALSE, FALSE, "", <<>>, MissingCapture, NoFile)
NoBody == [any |-> FALSE, val |-> None]

CaptureIdle ==
    /\ self_captured_requests = <<>>
    /\ search_results = NoFile
    /\ p_n = 0
    /\ p_last = NoHook
    /\ p_recent = NoBody
    /\ p_stored = NoBody

HooksIdle ==
    /\ h_flow = <<>>
    /\ h_pc = <<>>
    /\ h_steps = <<>>

NoEnvironment ==
    [prepare |-> "", construct |-> "", setup |-> "", home |-> "",
     navigate |-> "", quit |-> ""]

WorkflowIdle ==
    /\ w_env = NoEnvironment
    /\ w_pc = "idle"
    /\ w_prepared = ""
    /\ w_automation = ""
    /\ w_driver = FALSE
    /\ w_quit = ""
    /\ w_cleanup = 0
    /\ w_ret = ""

-----------------------------------------------------------------------------
(* One call of replay_request on any record, any override, any answer.     *)
BatchIdle ==
    /\ param_variations = <<>>
    /\ rb_pc = "idle"
    /\ captured = <<>>
    /\ rb_i = 0 /\ rb_j = 0
    /\ results = <<>>
    /\ rb_ret = <<>>
    /\ rb_issued = <<>>
    /\ rb_rets = <<>>
    /\ rb_http = 0

ReplayIdle ==
    /\ request_data = Record({}, NoneParams, NoText)
    /\ modified_params = NoneParams
    /\ rr_pc = "idle"
    /\ rr_out = Outcome(None, FALSE, <<>>, Record({}, NoneParams, NoText), "")
    /\ rr_resp = NoResponse

InitReplay ==
    /\ request_data \in Requests
    /\ modified_params \in ParamValues
    /\ rr_pc = "call"
    /\ rr_out = Outcome(None, FALSE, <<>>, request_data, "")
    /\ rr_resp = NoResponse
    /\ capture_file = [state |-> "missing", records |-> <<>>]
    /\ BatchIdle
    /\ DriverIdle
    /\ ExtractIdle
    /\ CaptureIdle
    /\ HooksIdle
    /\ WorkflowIdle

\* replayer.replay_request(request_data, modified_params)
ReplayRequest ==
    /\ rr_pc = "call"
    /\ \E resp \in Responses :
          /\ rr_out' = replay_request(request_data, modified_params, resp)
          /\ rr_resp' = IF rr_out'.sent = <<>> THEN NoResponse ELSE resp
    /\ rr_pc' = "done"
    /\ UNCHANGED <<capture_file, request_data, modified_params, batchVars, driverVars, extractVars, captureVars,
                   hookVars, workflowVars>>

NextReplay == ReplayRequest

SpecReplay == InitReplay /\ [][NextReplay]_vars

-----------------------------------------------------------------------------
(* replay_with_modifications over a capture file.                          *)

\* a bug: a file that cannot be read gives one default record
load_captured_requests_Default(file) ==
    IF file.state = "ok" THEN json_load_records(file.records)
    ELSE <<Record(Fields, NoneParams, NoText)>>

\* load_captured_requests (lines 13-22): a missing file and a file that is
\* not JSON both give the empty list
load_captured_requests(file) ==
    IF file.state = "ok" THEN json_load_records(file.records) ELSE <<>>

BatchRecords ==
    {Record(Fields, [none |-> FALSE, m |-> [k \in {"page"} |-> "1"]], SearchBody),
     Record(Fields \ {"url"}, [none |-> FALSE, m |-> [k \in {"page"} |-> "1"]], SearchBody)}

BatchVariations == {NoneParams, [none |-> FALSE, m |-> [k \in {"page"} |-> "2"]]}

BatchResponses ==
    {NoResponse,
     [exc |-> FALSE, status |-> 404, text |-> ObjText(<<(<<"code", "0">>)>>, TRUE)],
     [exc |-> FALSE, status |-> 200, text |-> BadText],
     [exc |-> FALSE, status |-> 200, text |-> ObjText(<<>>, TRUE)],
     [exc |-> FALSE, status |-> 200, text |-> ObjText(<<(<<"code", "0">>)>>, TRUE)]}

CaptureFiles ==
    {[state |-> "missing", records |-> <<>>], [state |-> "invalid", records |-> <<>>]}
    \cup {[state |-> "ok", records |-> json_dump_records(r)] :
            r \in SeqsUpTo(BatchRecords, MaxCaptured)}

InitBatch ==
    /\ capture_file \in CaptureFiles
    /\ param_variations \in SeqsUpTo(BatchVariations, MaxVariations)
    /\ rb_pc = "start"
    /\ captured = <<>>
    /\ rb_i = 0 /\ rb_j = 0
    /\ results = <<>>
    /\ rb_ret = <<>>
    /\ rb_issued = <<>>
    /\ rb_rets = <<>>
    /\ rb_http = 0
    /\ ReplayIdle
    /\ DriverIdle
    /\ ExtractIdle
    /\ CaptureIdle
    /\ HooksIdle
    /\ WorkflowIdle

\* lines 71-76: load the records; nothing loaded ends the call with []
BatchLoad ==
    /\ rb_pc = "start"
    /\ captured' = load_captured_requests(capture_file)
    /\ rb_pc' = IF captured' = <<>> THEN "done" ELSE "loop"
    /\ rb_i' = IF captured' = <<>> THEN 0 ELSE 1
    /\ rb_j' = IF captured' = <<>> THEN 0 ELSE 1
    /\ UNCHANGED <<capture_file, param_variations, results, rb_ret, rb_issued,
                   rb_rets, rb_http, replayVars, driverVars, extractVars, captureVars,
                   hookVars, workflowVars>>

\* line 81: `if result:` keeps the result when it is truthy
KeepResult(result) == Truthy(result)

\* lines 78-82: one pass of the inner loop body
BatchReplay ==
    /\ rb_pc = "loop"
    /\ rb_i <= Len(captured)
    /\ param_variations # <<>>
    /\ \E resp \in BatchResponses :
          LET o == replay_request(captured[rb_i], param_variations[rb_j], resp)
          IN /\ results' = IF KeepResult(o.ret) THEN Append(results, o.ret) ELSE results
             /\ rb_rets' = IF o.ret # None THEN Append(rb_rets, o.ret) ELSE rb_rets
             /\ rb_http' = rb_http + Len(o.sent)
    /\ rb_issued' = Append(rb_issued, <<rb_i, rb_j>>)
    /\ rb_i' = IF rb_j < Len(param_variations) THEN rb_i ELSE rb_i + 1
    /\ rb_j' = IF rb_j < Len(param_variations) THEN rb_j + 1 ELSE 1
    /\ UNCHANGED <<capture_file, param_variations, rb_pc, captured, rb_ret,
                   replayVars, driverVars, extractVars, captureVars,
                   hookVars, workflowVars>>

\* line 84: return results
BatchReturn ==
    /\ rb_pc = "loop"
    /\ rb_i > Len(captured) \/ param_variations = <<>>
    /\ rb_ret' = results
    /\ rb_pc' = "done"
    /\ UNCHANGED <<capture_file, param_variations, captured, rb_i, rb_j, results,
                   rb_issued, rb_rets, rb_http, replayVars, driverVars, extractVars, captureVars,
                   hookVars, workflowVars>>

NextBatch == BatchLoad \/ BatchReplay \/ BatchReturn

SpecBatch == InitBatch /\ [][NextBatch]_vars

-----------------------------------------------------------------------------
(* The Keyword Driver, search_all_keywords.                                *)

(* A write `with open(path, "w") as f: json.dump(value, f)` as the          *)
(* environment decides it: it succeeds, open() raises (the file is left as *)
(* it was), or json.dump raises part way (the file is left truncated; a    *)
(* decoded string with a lone surrogate does that under ensure_ascii=False)*)
WriteOutcomes == {"ok", "open_fails", "dump_fails"}

\* the text file after the write
WriteText(old, text, w) ==
    CASE w = "ok" -> text
      [] w = "open_fails" -> old
      [] OTHER -> BadText

\* captured_requests.json after a write of the list `records`
WriteCapture(old, records, w) ==
    CASE w = "ok" -> [state |-> "ok", records |-> json_dump_records(records)]
      [] w = "open_fails" -> old
      [] OTHER -> [state |-> "invalid", records |-> <<>>]

\* json.dump(value, f, ensure_ascii=False, indent=2)
json_dump_indent(v) == json_dumps(v)

\* json.dump(original_request, f, ...): the record as a JSON object, its
\* keys as they are, each value abridged to the name of its key
RecordText(req) ==
    LET order == <<"url", "method", "headers", "params", "body">>
        present == SelectSeq(order, LAMBDA f : f \in req.has)
    IN ObjText([n \in DOMAIN present |->
                  <<present[n], IF present[n] = "url" THEN req.url
                                ELSE IF present[n] = "method" THEN req.method
                                ELSE present[n]>>], FALSE)

(* convert_flow_to_json (src/src/api_searcher.py lines 18-99).  A flow is   *)
(* [url, method, headers, content].                                        *)
CartUrl == "https://api/cart"
SuggestUrl == "https://api/searchSuggest"

\* line 54: 'search' in pretty_url.lower()
HasSearch(url) == url \in {SearchUrl, SuggestUrl}

\* lines 55-70: the record of one flow
FlowRecord(flow) ==
    Record(IF TextTruthy(flow.content) THEN {"url", "method", "headers", "body"}
           ELSE {"url", "method", "headers"},
           NoneParams, flow.content)

RECURSIVE FlowRecords(_)
FlowRecords(flows) ==
    IF flows = <<>> THEN <<>>
    ELSE LET rest == FlowRecords(SubSeq(flows, 1, Len(flows) - 1))
             last == flows[Len(flows)]
         IN IF HasSearch(last.url) THEN Append(rest, FlowRecord(last)) ELSE rest

\* [ok, file]: the value returned and captured_requests.json afterwards
convert_flow_to_json(flow_file, old, w) ==
    IF flow_file.state # "ok" \/ FlowRecords(flow_file.flows) = <<>>
    THEN [ok |-> FALSE, file |-> old]
    ELSE [ok |-> w = "ok", file |-> WriteCapture(old, FlowRecords(flow_file.flows), w)]

DriverBodies ==
    {NoText, EmptyText, BadText, ArrText(<<(<<"0", "x">>)>>), SearchBody,
     ObjText(<<(<<"page", "1">>), (<<"size", "9">>), (<<"page", "2">>)>>, FALSE)}

SearchFlow(content) ==
    [url |-> SearchUrl, method |-> "POST", headers |-> Headers, content |-> content]
CartFlow ==
    [url |-> CartUrl, method |-> "GET", headers |-> Headers, content |-> NoText]

TrafficFlows ==
    {[state |-> "missing", flows |-> <<>>], [state |-> "ok", flows |-> <<CartFlow>>]}
    \cup {[state |-> "ok", flows |-> <<SearchFlow(b)>>] : b \in DriverBodies}
    \cup {[state |-> "ok", flows |-> <<CartFlow, SearchFlow(b), SearchFlow(EmptyText)>>] :
             b \in DriverBodies}

DriverRecords ==
    {Record(Fields, [none |-> FALSE, m |-> [k \in {"page"} |-> "1"]], b) : b \in DriverBodies}
    \cup {Record(Fields \ {"body"}, [none |-> FALSE, m |-> EmptyMap], NoText)}

DriverCaptureFiles ==
    {MissingCapture, [state |-> "invalid", records |-> <<>>], [state |-> "ok", records |-> <<>>]}
    \cup {[state |-> "ok", records |-> json_dump_records(<<r>>)] : r \in DriverRecords}
    \cup {[state |-> "ok",
           records |-> json_dump_records(
                          <<r, Record(Fields \ {"body"}, NoneParams, NoText)>>)] :
             r \in DriverRecords}

DriverResponses ==
    {[exc |-> FALSE, status |-> 404, text |-> ObjText(<<(<<"code", "0">>)>>, TRUE)],
     [exc |-> FALSE, status |-> 200, text |-> ObjText(<<>>, TRUE)],
     [exc |-> FALSE, status |-> 200, text |-> ObjText(<<(<<"code", "0">>)>>, TRUE)]}

InitDriver ==
    /\ variant \in {"src", "root"}
    /\ SEARCH_KEYWORDS \in KeywordLists
    /\ IF variant = "src"
       THEN traffic_flow \in TrafficFlows /\ capture_file = MissingCapture
       ELSE traffic_flow = [state |-> "missing", flows |-> <<>>]
            /\ capture_file \in DriverCaptureFiles
    /\ result_files = NoResultFiles
    /\ d_pc = IF variant = "src" THEN "convert" ELSE "start"
    /\ original_request = NoRecord
    /\ captured_requests = <<>>
    /\ d_k = 0
    /\ d_end = ""
    /\ d_baseline = NoRecord
    /\ d_iters = <<>>
    /\ ReplayIdle
    /\ BatchIdle
    /\ ExtractIdle
    /\ CaptureIdle
    /\ HooksIdle
    /\ WorkflowIdle

\* src/src/api_searcher.py lines 103-106
DriverConvert ==
    /\ d_pc = "convert"
    /\ \E w \in WriteOutcomes :
          LET c == convert_flow_to_json(traffic_flow, capture_file, w)
          IN /\ capture_file' = c.file
             /\ d_pc' = IF c.ok THEN "start" ELSE "done"
             /\ d_end' = IF c.ok THEN "" ELSE "return"
    /\ UNCHANGED <<variant, SEARCH_KEYWORDS, traffic_flow, result_files,
                   original_request, captured_requests, d_k, d_baseline, d_iters,
                   replayVars, batchVars, extractVars, captureVars,
                   hookVars, workflowVars>>

(* What the code before the keyword loop does: [end, orig, creqs, file].   *)
(* end = "" enters the loop.                                               *)
Started(end, orig, creqs, file) ==
    [end |-> end, orig |-> orig, creqs |-> creqs, file |-> file]

\* src/src/api_searcher.py lines 108-128
StartSrc(cfile, old, w) ==
    LET loaded == load_captured_requests(cfile)
    IN IF loaded = <<>> THEN Started("return", NoRecord, <<>>, old)
       ELSE IF ~("body" \in loaded[1].has /\ TextTruthy(loaded[1].body))
       THEN Started("return", loaded[1], <<>>, old)
       ELSE Started(IF w = "ok" THEN "" ELSE "return", loaded[1], <<>>,
                    WriteText(old, RecordText(loaded[1]), w))

\* src/api_searcher.py lines 9-24
StartRoot(cfile, old, w) ==
    LET loaded == load_captured_requests(cfile)
    IN IF loaded = <<>> THEN Started("except", NoRecord, <<>>, old)
       ELSE Started(IF w = "ok" THEN "" ELSE "except", loaded[1],
                    IF w = "ok" THEN loaded ELSE <<>>,
                    WriteText(old, RecordText(loaded[1]), w))

DriverStart ==
    /\ d_pc = "start"
    /\ \E w \in WriteOutcomes :
          LET st == IF variant = "src"
                    THEN StartSrc(capture_file, result_files[BaselineKeyword], w)
                    ELSE StartRoot(capture_file, result_files[BaselineKeyword], w)
          IN /\ original_request' = st.orig
             /\ d_baseline' = st.orig
             /\ captured_requests' = st.creqs
             /\ result_files' = [result_files EXCEPT ![BaselineKeyword] = st.file]
             /\ d_end' = st.end
             /\ d_pc' = IF st.end = "" THEN "loop" ELSE "done"
             /\ d_k' = IF st.end = "" THEN 1 ELSE 0
    /\ UNCHANGED <<capture_file, variant, SEARCH_KEYWORDS, traffic_flow, d_iters,
                   replayVars, batchVars, extractVars, captureVars,
                   hookVars, workflowVars>>

(* One pass of the keyword loop for a keyword other than the baseline.     *)
(* iter is the history entry: replayed (replay_request was called), sent   *)
(* (its kwargs), ret (what it returned), wrote ("no", "ok", "failed": the  *)
(* result file), slept (time.sleep(0.5) ran), log (the error logged).      *)
Iter(keyword, replayed, sent, ret, wrote, slept, log) ==
    [keyword |-> keyword, replayed |-> replayed, sent |-> sent, ret |-> ret,
     wrote |-> wrote, slept |-> slept, log |-> log]

\* [abort, orig, creqs, cfile, file, iter]: abort = TRUE leaves the loop
Pass(abort, orig, creqs, cfile, file, iter) ==
    [abort |-> abort, orig |-> orig, creqs |-> creqs, cfile |-> cfile,
     file |-> file, iter |-> iter]

\* a bug: the other fields of the body are dropped
SubstituteKeyword_Only(body_dict, keyword) ==
    json_dumps([t |-> "dict", items |-> <<(<<"keywords", keyword>>)>>])

\* body_dict["keywords"] = keyword; json.dumps(body_dict, ensure_ascii=False)
SubstituteKeyword(body_dict, keyword) ==
    json_dumps([t |-> "dict", items |-> SetItem(body_dict.items, "keywords", keyword)])

\* line 154 / line 43: `if result:`
HasResult(result) == Truthy(result)

\* a bug: the baseline keyword is replayed like the others
SkipKeyword_Never(keyword) == FALSE

\* lines 131-132 / 27-28: `if keyword == <baseline>: continue`
SkipKeyword(keyword) == keyword = BaselineKeyword

\* src/src/api_searcher.py lines 136-164
PassSrc(orig, creqs, cfile, old, keyword, resp, w) ==
    LET j == json_loads(orig.body)
        skip(log) == Pass(FALSE, orig, creqs, cfile, old,
                          Iter(keyword, FALSE, NoKwargs, None, "no", FALSE, log))
    IN IF j.err = "JSONDecodeError"
       THEN skip("Could not parse request body as JSON")
       ELSE IF j.err # "" \/ j.val.t # "dict"
       THEN skip("Error processing keyword")
       ELSE LET current_request == [orig EXCEPT !.body = SubstituteKeyword(j.val, keyword)]
                o == replay_request(current_request, NoneParams, resp)
                sent == IF o.sent = <<>> THEN NoKwargs ELSE o.sent[1]
                stored == Append(creqs, current_request)
            IN IF ~HasResult(o.ret)
               THEN Pass(FALSE, orig, stored, cfile, old,
                         Iter(keyword, TRUE, sent, o.ret, "no", TRUE,
                              "Failed to get results for keyword"))
               ELSE IF w = "ok"
               THEN Pass(FALSE, orig, stored, cfile, json_dump_indent(o.ret),
                         Iter(keyword, TRUE, sent, o.ret, "ok", TRUE, ""))
               ELSE Pass(FALSE, orig, stored, cfile, WriteText(old, json_dump_indent(o.ret), w),
                         Iter(keyword, TRUE, sent, o.ret, "failed", FALSE,
                              "Error processing keyword"))

\* src/api_searcher.py lines 30-50
PassRoot(orig, creqs, cfile, old, keyword, resp, wl, w) ==
    LET j == json_loads(orig.body)
        stop == Pass(TRUE, orig, creqs, cfile, old,
                     Iter(keyword, FALSE, NoKwargs, None, "no", FALSE,
                          "Error in search_all_keywords"))
    IN IF "body" \notin orig.has \/ j.err # "" \/ j.val.t # "dict"
       THEN stop
       ELSE LET modified == [orig EXCEPT !.body = SubstituteKeyword(j.val, keyword)]
                stored == Append(creqs, modified)
                o == replay_request(modified, NoneParams, resp)
                sent == IF o.sent = <<>> THEN NoKwargs ELSE o.sent[1]
            IN IF wl # "ok"
               THEN Pass(TRUE, modified, stored, WriteCapture(cfile, stored, wl), old,
                         Iter(keyword, FALSE, NoKwargs, None, "no", FALSE,
                              "Error in search_all_keywords"))
               ELSE IF ~HasResult(o.ret)
               THEN Pass(FALSE, modified, stored, WriteCapture(cfile, stored, wl), old,
                         Iter(keyword, TRUE, sent, o.ret, "no", TRUE, ""))
               ELSE IF w = "ok"
               THEN Pass(FALSE, modified, stored, WriteCapture(cfile, stored, wl),
                         json_dump_indent(o.ret),
                         Iter(keyword, TRUE, sent, o.ret, "ok", TRUE, ""))
               ELSE Pass(TRUE, modified, stored, WriteCapture(cfile, stored, wl),
                         WriteText(old, json_dump_indent(o.ret), w),
                         Iter(keyword, TRUE, sent, o.ret, "failed", FALSE,
                              "Error in search_all_keywords"))

\* one pass of `for keyword in SEARCH_KEYWORDS`
DriverKeyword ==
    /\ d_pc = "loop"
    /\ d_k <= Len(SEARCH_KEYWORDS)
    /\ LET keyword == SEARCH_KEYWORDS[d_k]
       IN IF SkipKeyword(keyword)
          THEN /\ d_k' = d_k + 1
               /\ UNCHANGED <<capture_file, result_files, d_pc, original_request,
                              captured_requests, d_end, d_iters>>
          ELSE \E resp \in DriverResponses, wl, w \in WriteOutcomes :
                 LET ps == IF variant = "src"
                           THEN PassSrc(original_request, captured_requests, capture_file,
                                        result_files[keyword], keyword, resp, w)
                           ELSE PassRoot(original_request, captured_requests, capture_file,
                                         result_files[keyword], keyword, resp, wl, w)
                 IN /\ original_request' = ps.orig
                    /\ captured_requests' = ps.creqs
                    /\ capture_file' = ps.cfile
                    /\ result_files' = [result_files EXCEPT ![keyword] = ps.file]
                    /\ d_iters' = Append(d_iters, ps.iter)
                    /\ d_pc' = IF ps.abort THEN "done" ELSE "loop"
                    /\ d_end' = IF ps.abort THEN "except" ELSE ""
                    /\ d_k' = IF ps.abort THEN d_k ELSE d_k + 1
    /\ UNCHANGED <<variant, SEARCH_KEYWORDS, traffic_flow, d_baseline,
                   replayVars, batchVars, extractVars, captureVars,
                   hookVars, workflowVars>>

\* the loop is over: src/src/api_searcher.py lines 166-171 save the list
\* of requests issued; src/api_searcher.py has saved it in every pass
DriverFinish ==
    /\ d_pc = "loop"
    /\ d_k > Len(SEARCH_KEYWORDS)
    /\ \E w \in WriteOutcomes :
          capture_file' = IF variant = "src"
                          THEN WriteCapture(capture_file, captured_requests, w)
                          ELSE capture_file
    /\ d_pc' = "done"
    /\ d_end' = "end"
    /\ UNCHANGED <<variant, SEARCH_KEYWORDS, traffic_flow, result_files,
                   original_request, captured_requests, d_k, d_baseline, d_iters,
                   replayVars, batchVars, extractVars, captureVars,
                   hookVars, workflowVars>>

NextDriver == DriverConvert \/ DriverStart \/ DriverKeyword \/ DriverFinish

SpecDriver == InitDriver /\ [][NextDriver]_vars

-----------------------------------------------------------------------------
(* The Extractor, extract_all_products (src/src/extract_products.py).      *)

(* A file name and a keyword are sequences of pieces of text, so that a    *)
(* piece can be the prefix or the suffix itself.                           *)
Prefix == "search_results_"
Suffix == ".json"

\* f"search_results_{keyword}.json", the name the Keyword Driver writes to
ResultFileName(keyword) == <<Prefix>> \o keyword \o <<Suffix>>

\* name.replace(old, ""): every occurrence of old is dropped
str_replace(name, old) == SelectSeq(name, LAMBDA piece : piece # old)

\* line 13: the catalog key of a result file
KeywordOf(result_file) == str_replace(str_replace(result_file, Prefix), Suffix)

\* the keywords that have a result file: two plain ones, and one that ends
\* with the suffix text (xiangjiao.json)
ExtractKeywords == {<<"xiangjiao">>, <<"chengzi">>, <<"xiangjiao", Suffix>>}
ResultFileNames == {ResultFileName(k) : k \in ExtractKeywords}

(* An item of onSaleList is a dict: `has` is the set of the keys present   *)
(* among goodsName and memberPrice; memberPrice is in hundredths.          *)
ItemFields == {"goodsName", "memberPrice"}
Item(has, goodsName, memberPrice) ==
    [has |-> has, goodsName |-> goodsName, memberPrice |-> memberPrice]
Items ==
    {Item(ItemFields, "A", 500), Item(ItemFields, "B", 1250),
     Item({"goodsName"}, "A", 0), Item({"memberPrice"}, "", 500)}

(* A result file is [valid, data, b2c, onSaleList, items]: valid tells     *)
(* whether json.load decodes it (to a dict); data and b2c are "absent"     *)
(* (no such key), "null" or "dict"; onSaleList is "absent" or "list", and  *)
(* items is the list.  A level below an absent or null one is absent.      *)
Doc(valid, data, b2c, onSaleList, items) ==
    [valid |-> valid, data |-> data, b2c |-> b2c, onSaleList |-> onSaleList,
     items |-> items]
Docs ==
    {Doc(FALSE, "absent", "absent", "absent", <<>>),
     Doc(TRUE, "absent", "absent", "absent", <<>>),
     Doc(TRUE, "null", "absent", "absent", <<>>),
     Doc(TRUE, "dict", "absent", "absent", <<>>),
     Doc(TRUE, "dict", "null", "absent", <<>>),
     Doc(TRUE, "dict", "dict", "absent", <<>>)}
    \cup {Doc(TRUE, "dict", "dict", "list", l) : l \in SeqsUpTo(Items, MaxItems)}

\* the directory: some of the result files, not all of them at once
FileSystems ==
    UNION {[names -> Docs] : names \in (SUBSET ResultFileNames) \ {ResultFileNames}}

\* lines 18-22: "yes", "no", or "raise" (`in` applied to None is a TypeError)
HasPath(data) ==
    IF data.data = "absent" THEN "no"
    ELSE IF data.data = "null" THEN "raise"
    ELSE IF data.b2c = "absent" THEN "no"
    ELSE IF data.b2c = "null" THEN "raise"
    ELSE IF data.onSaleList = "absent" THEN "no"
    ELSE "yes"

\* extract_products.py lines 15-16 on a file the Keyword Driver wrote: a JSON
\* object decodes to a dict whose values are strings, so a `data` member
\* holds no b2c; anything else is not a dict
DocOfText(text) ==
    IF text.kind # "obj" THEN Doc(FALSE, "absent", "absent", "absent", <<>>)
    ELSE IF \E n \in DOMAIN text.pairs : text.pairs[n][1] = "data"
    THEN Doc(TRUE, "dict", "absent", "absent", <<>>)
    ELSE Doc(TRUE, "absent", "absent", "absent", <<>>)

\* memberPrice / 100, as units and hundredths: 500 gives 5.00
Price_Undivided(memberPrice) == [units |-> memberPrice, hundredths |-> 0]
Price(memberPrice) ==
    [units |-> memberPrice \div 100, hundredths |-> memberPrice % 100]

\* lines 25-28
Product(item) == [item |-> item.goodsName, price |-> Price(item.memberPrice)]

\* line 30: f"{product['item']}_{product['price']}"
item_key(product) == <<product.item, "_", product.price>>

\* item["goodsName"] or item["memberPrice"] raises KeyError
ItemIncomplete_Never(item) == FALSE
ItemIncomplete(item) == ~(ItemFields \subseteq item.has)

\* line 31
Seen_Never(key, existing) == FALSE
Seen(key, existing) == key \in existing

\* products[keyword].append(product) on a defaultdict(list)
DictAppend(prods, keyword, product) ==
    IF keyword \in DOMAIN prods
    THEN [prods EXCEPT ![keyword] = Append(@, product)]
    ELSE [k \in DOMAIN prods \cup {keyword} |->
            IF k = keyword THEN <<product>> ELSE prods[k]]

Scanned(raised, prods, existing) ==
    [raised |-> raised, products |-> prods, existing_items |-> existing]

RECURSIVE ScanItems(_, _, _, _)
\* lines 24-33: the loop over the items of one onSaleList
ScanItems(items, keyword, prods, existing) ==
    IF items = <<>> THEN Scanned(FALSE, prods, existing)
    ELSE IF ItemIncomplete(Head(items)) THEN Scanned(TRUE, prods, existing)
    ELSE LET product == Product(Head(items))
             key == item_key(product)
         IN IF Seen(key, existing)
            THEN ScanItems(Tail(items), keyword, prods, existing)
            ELSE ScanItems(Tail(items), keyword,
                           DictAppend(prods, keyword, product),
                           existing \cup {key})

\* lines 13-33: one pass of the loop over the result files
ScanFile(result_file, data, prods, existing) ==
    IF ~data.valid THEN Scanned(TRUE, prods, existing)
    ELSE CASE HasPath(data) = "raise" -> Scanned(TRUE, prods, existing)
           [] HasPath(data) = "no" -> Scanned(FALSE, prods, existing)
           [] OTHER -> ScanItems(data.items, KeywordOf(result_file), prods, existing)

\* lines 35-36: products.json after json.dump(products, f, ...)
WriteCatalog(old, prods, w) ==
    CASE w = "ok" -> [state |-> "ok", map |-> prods]
      [] w = "open_fails" -> old
      [] OTHER -> [state |-> "invalid", map |-> <<>>]

\* a products.json left by an earlier run over other files
OldCatalog ==
    [state |-> "ok",
     map |-> [k \in {<<"putao">>} |-> <<Product(Item(ItemFields, "C", 300))>>]]

InitExtract ==
    /\ x_files \in FileSystems
    /\ x_catalog \in {NoCatalog, OldCatalog}
    /\ x_pc = "start"
    /\ x_todo = {}
    /\ products = <<>>
    /\ existing_items = {}
    /\ x_end = ""
    /\ x_run = "first"
    /\ x_scan = <<>>
    /\ x_before = NoCatalog
    /\ x_first = NoRun
    /\ capture_file = MissingCapture
    /\ ReplayIdle
    /\ BatchIdle
    /\ DriverIdle
    /\ CaptureIdle
    /\ HooksIdle
    /\ WorkflowIdle

\* lines 8-12: the empty accumulators, and glob.glob("search_results_*.json")
ExtractStart ==
    /\ x_pc = "start"
    /\ products' = <<>>
    /\ existing_items' = {}
    /\ x_todo' = DOMAIN x_files
    /\ x_end' = ""
    /\ x_scan' = <<>>
    /\ x_before' = x_catalog
    /\ x_pc' = "scan"
    /\ UNCHANGED <<capture_file, x_files, x_catalog, x_run, x_first,
                   replayVars, batchVars, driverVars, captureVars,
                   hookVars, workflowVars>>

\* lines 12-33: the next file, in whatever order glob gave; an exception
\* goes to line 40 and ends the run
ExtractFile ==
    /\ x_pc = "scan"
    /\ \E result_file \in x_todo :
          LET r == ScanFile(result_file, x_files[result_file], products, existing_items)
          IN /\ x_scan' = Append(x_scan, result_file)
             /\ x_todo' = x_todo \ {result_file}
             /\ products' = r.products
             /\ existing_items' = r.existing_items
             /\ x_end' = IF r.raised THEN "error" ELSE x_end
             /\ x_pc' = IF r.raised THEN "done" ELSE x_pc
    /\ UNCHANGED <<capture_file, x_files, x_catalog, x_run, x_before, x_first,
                   replayVars, batchVars, driverVars, captureVars,
                   hookVars, workflowVars>>

\* lines 35-41: the catalog is written once every file is scanned
ExtractWrite ==
    /\ x_pc = "scan"
    /\ x_todo = {}
    /\ \E w \in WriteOutcomes :
          /\ x_catalog' = WriteCatalog(x_catalog, products, w)
          /\ x_end' = IF w = "ok" THEN "ok" ELSE "write_error"
    /\ x_pc' = "done"
    /\ UNCHANGED <<capture_file, x_files, x_todo, products, existing_items, x_run,
                   x_scan, x_before, x_first, replayVars, batchVars, driverVars, captureVars,
                   hookVars, workflowVars>>

\* line 45: the script is run again over the same files
ExtractAgain ==
    /\ x_pc = "done"
    /\ x_run = "first"
    /\ x_first' = [end |-> x_end, catalog |-> x_catalog, scan |-> x_scan]
    /\ x_run' = "second"
    /\ x_pc' = "start"
    /\ UNCHANGED <<capture_file, x_files, x_catalog, x_todo, products,
                   existing_items, x_end, x_scan, x_before,
                   replayVars, batchVars, driverVars, captureVars,
                   hookVars, workflowVars>>

NextExtract == ExtractStart \/ ExtractFile \/ ExtractWrite \/ ExtractAgain

SpecExtract == InitExtract /\ [][NextExtract]_vars

-----------------------------------------------------------------------------
(* The Capture Addon, RequestCapture (src/src/pagoda_proxy.py).            *)

(* A transaction is [url, method, content, response]: content is the       *)
(* request body (None, "", a text, or bytes that are not UTF-8), response  *)
(* is [present, content] (present = FALSE: flow.response is None).         *)
Flow(url, method, content, response) ==
    [url |-> url, method |-> method, content |-> content, response |-> response]
Undecodable == [kind |-> "undecodable", pairs |-> <<>>, compact |-> FALSE]
RequestContents == {NoText, EmptyText, SearchBody, Undecodable}

ResponseBody(content) == [present |-> TRUE, content |-> content]
SaleList(goods) == ObjText(<<(<<"code", "0">>), (<<"onSaleList", goods>>)>>, TRUE)
FlowResponses ==
    {NoResponseContent, ResponseBody(NoText), ResponseBody(BadText),
     ResponseBody(ObjText(<<(<<"code", "1">>)>>, TRUE)),
     ResponseBody(SaleList("A")), ResponseBody(SaleList("B"))}

\* the transactions as the request hook gets them (no response yet)
RequestFlows ==
    {Flow(SearchUrl, "POST", c, NoResponseContent) : c \in RequestContents}
    \cup {Flow(CartUrl, "GET", NoText, NoResponseContent),
          Flow(SuggestUrl, "POST", SearchBody, NoResponseContent)}

\* the transactions as the response hook gets them
ResponseFlows ==
    {Flow(SearchUrl, "POST", SearchBody, r) : r \in FlowResponses}
    \cup {Flow(CartUrl, "GET", NoText, ResponseBody(SaleList("A"))),
          Flow(SuggestUrl, "POST", SearchBody, ResponseBody(SaleList("A")))}

\* lines 17 and 35: "searchGoods" in flow.request.pretty_url
HasSearchGoods_AnySearch(url) == url \in {SearchUrl, SuggestUrl}
HasSearchGoods(url) == url = SearchUrl

\* lines 23-27: flow.request.content.decode("utf-8") if flow.request.content
\* else None, as [err, body]
decode_content(content) ==
    IF ~TextTruthy(content) THEN [err |-> "", body |-> NoText]
    ELSE IF content.kind = "undecodable"
         THEN [err |-> "UnicodeDecodeError", body |-> NoText]
         ELSE [err |-> "", body |-> content]

\* lines 18-28: request_data
CapturedRecord(flow, body) ==
    [Record(Fields, [none |-> FALSE, m |-> EmptyMap], body)
        EXCEPT !.url = flow.url, !.method = flow.method]

\* what a hook leaves: [raised, wrote, log, list, file, snapshot]
Left(raised, wrote, log, list, file, snapshot) ==
    [raised |-> raised, wrote |-> wrote, log |-> log,
     list |-> list, file |-> file, snapshot |-> snapshot]

\* lines 16-32: RequestCapture.request; nothing in it catches an exception
request(list, file, snapshot, flow, w) ==
    IF ~HasSearchGoods(flow.url) THEN Left(FALSE, FALSE, "", list, file, snapshot)
    ELSE LET d == decode_content(flow.content)
             appended == Append(list, CapturedRecord(flow, d.body))
         IN IF d.err # "" THEN Left(TRUE, FALSE, "", list, file, snapshot)
            ELSE Left(w # "ok", TRUE, "", appended,
                      WriteCapture(file, appended, w), snapshot)

\* line 38: "onSaleList" in str(response_data)
ContainsOnSaleList(val) ==
    \E n \in DOMAIN val.items :
        val.items[n][1] = "onSaleList" \/ val.items[n][2] = "onSaleList"

\* lines 34-43: RequestCapture.response; lines 42-43 catch every exception
\* of the decoding and of the write
response_NoUrlTest(list, file, snapshot, flow, w) ==
    LET r == json_loads(flow.response.content)
    IN IF ~flow.response.present THEN Left(FALSE, FALSE, "", list, file, snapshot)
       ELSE IF r.err # "" \/ ~ContainsOnSaleList(r.val)
            THEN Left(FALSE, FALSE, "", list, file, snapshot)
            ELSE Left(FALSE, TRUE, "", list, file,
                      WriteText(snapshot, json_dump_indent(r.val), w))
response(list, file, snapshot, flow, w) ==
    IF ~(HasSearchGoods(flow.url) /\ flow.response.present)
    THEN Left(FALSE, FALSE, "", list, file, snapshot)
    ELSE LET r == json_loads(flow.response.content)
         IN IF r.err # ""
            THEN Left(FALSE, FALSE, "Failed to process response", list, file, snapshot)
            ELSE IF ~ContainsOnSaleList(r.val)
            THEN Left(FALSE, FALSE, "", list, file, snapshot)
            ELSE Left(FALSE, TRUE,
                      IF w = "ok" THEN "Successfully captured search results"
                      ELSE "Failed to process response",
                      list, file, WriteText(snapshot, json_dump_indent(r.val), w))

\* lines 35-38: a qualifying response: marker URL, a JSON body, and the
\* text onSaleList in it (as a key or as a value)
Qualifying(flow) ==
    /\ flow.url = SearchUrl
    /\ flow.response.present
    /\ flow.response.content.kind \in {"obj", "arr"}
    /\ \E n \in DOMAIN flow.response.content.pairs :
          "onSaleList" \in {flow.response.content.pairs[n][1],
                            flow.response.content.pairs[n][2]}

\* the addon as mitmproxy loads it: line 14, an empty list; no file yet
InitCapture ==
    /\ self_captured_requests = <<>>
    /\ capture_file = MissingCapture
    /\ search_results = NoFile
    /\ p_n = 0
    /\ p_last = NoHook
    /\ p_recent = NoBody
    /\ p_stored = NoBody
    /\ ReplayIdle
    /\ BatchIdle
    /\ DriverIdle
    /\ ExtractIdle
    /\ HooksIdle
    /\ WorkflowIdle

\* mitmproxy calls addon.request(flow)
CaptureRequest ==
    /\ p_n < MaxFlows
    /\ \E flow \in RequestFlows, w \in WriteOutcomes :
          LET left == request(self_captured_requests, capture_file, search_results, flow, w)
          IN /\ self_captured_requests' = left.list
             /\ capture_file' = left.file
             /\ search_results' = left.snapshot
             /\ p_last' = Hooked("request", flow, left.raised, left.wrote, left.log,
                                 self_captured_requests, capture_file, search_results)
    /\ p_n' = p_n + 1
    /\ UNCHANGED <<p_recent, p_stored, replayVars, batchVars, driverVars, extractVars,
                   hookVars, workflowVars>>

\* mitmproxy calls addon.response(flow)
CaptureResponse ==
    /\ p_n < MaxFlows
    /\ \E flow \in ResponseFlows, w \in WriteOutcomes :
          LET left == response(self_captured_requests, capture_file, search_results, flow, w)
              body == json_loads(flow.response.content).val
          IN /\ self_captured_requests' = left.list
             /\ capture_file' = left.file
             /\ search_results' = left.snapshot
             /\ p_last' = Hooked("response", flow, left.raised, left.wrote, left.log,
                                 self_captured_requests, capture_file, search_results)
             /\ p_recent' = IF Qualifying(flow) THEN [any |-> TRUE, val |-> body]
                            ELSE p_recent
             /\ p_stored' = IF left.wrote /\ w = "ok" THEN [any |-> TRUE, val |-> body]
                            ELSE p_stored
    /\ p_n' = p_n + 1
    /\ UNCHANGED <<replayVars, batchVars, driverVars, extractVars,
                   hookVars, workflowVars>>

NextCapture == CaptureRequest \/ CaptureResponse

SpecCapture == InitCapture /\ [][NextCapture]_vars

-----------------------------------------------------------------------------
(* One run of a reader of the capture log: replay_with_modifications or    *)
(* the Keyword Driver.                                                     *)
InitReaders == InitBatch \/ InitDriver

NextReaders == NextBatch \/ NextDriver

SpecReaders == InitReaders /\ [][NextReaders]_vars

-----------------------------------------------------------------------------
(* Request-hook invocations that interleave.  The hook takes no lock: an   *)
(* invocation is the statements up to the append (lines 17-29), then the   *)
(* write of the whole list (lines 31-32), and steps of other invocations   *)
(* may come between the two.                                               *)
MaxHooks == 2

\* lines 17-29: [pc, list]; a URL without the marker returns at once, a body
\* that is not UTF-8 raises before the append
request_append(list, flow) ==
    IF ~HasSearchGoods(flow.url) THEN [pc |-> "returned", list |-> list]
    ELSE LET d == decode_content(flow.content)
         IN IF d.err # "" THEN [pc |-> "raised", list |-> list]
            ELSE [pc |-> "appended",
                  list |-> Append(list, CapturedRecord(flow, d.body))]

\* a bug: the write leaves out the record appended last
request_write_Stale(list, file, w) ==
    WriteCapture(file, SubSeq(list, 1, Len(list) - 1), w)

\* lines 31-32: the list as it is at the write goes to the file
request_write(list, file, w) == WriteCapture(file, list, w)

InitHooks ==
    /\ capture_file = MissingCapture
    /\ \E n \in 1..MaxHooks : h_flow \in [1..n -> RequestFlows]
    /\ h_pc = [i \in DOMAIN h_flow |-> "called"]
    /\ h_steps = <<>>
    /\ ReplayIdle
    /\ BatchIdle
    /\ DriverIdle
    /\ ExtractIdle
    /\ CaptureIdle
    /\ WorkflowIdle

\* an invocation runs up to its append
HookAppend ==
    /\ \E i \in DOMAIN h_pc :
          /\ h_pc[i] = "called"
          /\ LET a == request_append(self_captured_requests, h_flow[i])
             IN /\ self_captured_requests' = a.list
                /\ h_pc' = [h_pc EXCEPT ![i] = a.pc]
          /\ h_steps' = Append(h_steps, i)
    /\ UNCHANGED <<capture_file, h_flow, search_results, p_n, p_last, p_recent,
                   p_stored, replayVars, batchVars, driverVars, extractVars,
                   workflowVars>>

\* an invocation that has appended writes the list and returns
HookWrite ==
    /\ \E i \in DOMAIN h_pc, w \in WriteOutcomes :
          /\ h_pc[i] = "appended"
          /\ capture_file' = request_write(self_captured_requests, capture_file, w)
          /\ h_pc' = [h_pc EXCEPT ![i] = IF w = "ok" THEN "returned" ELSE "write_failed"]
          /\ h_steps' = Append(h_steps, i)
    /\ UNCHANGED <<self_captured_requests, h_flow, search_results, p_n, p_last,
                   p_recent, p_stored, replayVars, batchVars, driverVars,
                   extractVars, workflowVars>>

NextHooks == HookAppend \/ HookWrite

SpecHooks == InitHooks /\ [][NextHooks]_vars

-----------------------------------------------------------------------------
(* start_automation_workflow (src/src/run_automation.py lines 34-64).      *)
(* The environment of a call is what each step it makes will do:           *)
(*   prepare    checker.prepare_for_pagoda(): "True", "False", "raise"     *)
(*   construct  PagodaSearch(): "ok", "raise"                              *)
(*   setup      _setup_driver(): "ok", "raise" (no session was created),   *)
(*              "raise_with_driver" (a session was created, then a failure)*)
(*   home       the wait for the home page: "ok", "timeout"                *)
(*   navigate   navigate_to_nationwide_delivery(): "True", "False"         *)
(*   quit       pagoda.driver.quit(): "ok", "raise"                        *)
Environments ==
    [prepare : {"True", "False", "raise"},
     construct : {"ok", "raise"},
     setup : {"ok", "raise", "raise_with_driver"},
     home : {"ok", "timeout"},
     navigate : {"True", "False"},
     quit : {"ok", "raise"}]

\* PagodaSearch.start_automation (src/src/pagoda.py lines 196-233):
\* [ret, driver]; every exception is caught and gives False
start_automation(env) ==
    IF env.setup = "raise" THEN [ret |-> "False", driver |-> FALSE]
    ELSE IF env.setup = "raise_with_driver" THEN [ret |-> "False", driver |-> TRUE]
    ELSE IF env.home = "timeout" THEN [ret |-> "False", driver |-> TRUE]
    ELSE IF env.navigate = "False" THEN [ret |-> "False", driver |-> TRUE]
    ELSE [ret |-> "True", driver |-> TRUE]

InitWorkflow ==
    /\ capture_file = MissingCapture
    /\ w_env \in Environments
    /\ w_pc = "prepare"
    /\ w_prepared = ""
    /\ w_automation = ""
    /\ w_driver = FALSE
    /\ w_quit = ""
    /\ w_cleanup = 0
    /\ w_ret = ""
    /\ ReplayIdle
    /\ BatchIdle
    /\ DriverIdle
    /\ ExtractIdle
    /\ CaptureIdle
    /\ HooksIdle

\* lines 36-42: the checker is made and prepares the environment; False is
\* returned at line 42, an exception goes to lines 59-61
WorkflowPrepare ==
    /\ w_pc = "prepare"
    /\ w_prepared' = w_env.prepare
    /\ w_pc' = IF w_env.prepare = "True" THEN "automation" ELSE "cleanup"
    /\ w_ret' = IF w_env.prepare = "True" THEN "" ELSE "False"
    /\ UNCHANGED <<capture_file, w_env, w_automation, w_driver, w_quit, w_cleanup,
                   replayVars, batchVars, driverVars, extractVars, captureVars,
                   hookVars>>

\* lines 46-57: the automation runs, its driver is quit (an exception of
\* quit is swallowed at lines 53-54) and True is returned; an exception of
\* the constructor goes to lines 59-61
WorkflowAutomation ==
    /\ w_pc = "automation"
    /\ IF w_env.construct = "raise"
       THEN /\ w_ret' = "False"
            /\ UNCHANGED <<w_automation, w_driver, w_quit>>
       ELSE LET a == start_automation(w_env)
            IN /\ w_automation' = a.ret
               /\ w_driver' = a.driver
               /\ w_quit' = IF a.driver THEN w_env.quit ELSE ""
               /\ w_ret' = "True"
    /\ w_pc' = "cleanup"
    /\ UNCHANGED <<capture_file, w_env, w_prepared, w_cleanup,
                   replayVars, batchVars, driverVars, extractVars, captureVars,
                   hookVars>>

\* lines 62-64: the finally clause, on the way out of every return
WorkflowCleanup ==
    /\ w_pc = "cleanup"
    /\ w_cleanup' = w_cleanup + 1
    /\ w_pc' = "done"
    /\ UNCHANGED <<capture_file, w_env, w_prepared, w_automation, w_driver, w_quit,
                   w_ret, replayVars, batchVars, driverVars, extractVars,
                   captureVars, hookVars>>

NextWorkflow == WorkflowPrepare \/ WorkflowAutomation \/ WorkflowCleanup

SpecWorkflow == InitWorkflow /\ [][NextWorkflow]_vars

-----------------------------------------------------------------------------
(* Claims about replay_request, under SpecReplay.                          *)
ReplayDone == rr_pc = "done"
ReplayAnswered == ReplayDone /\ rr_out.sent # <<>> /\ ~rr_resp.exc

\* C1: a record lacking method, url or headers makes replay_request return
\* None, raise nothing and issue no HTTP request.
C1_MissingFieldReturnsNone ==
    (ReplayDone /\ ~({"method", "url", "headers"} \subseteq request_data.has))
        => /\ rr_out.ret = None
           /\ ~rr_out.raised
           /\ rr_out.sent = <<>>

C1_Witness ==
    /\ ReplayDone
    /\ request_data.has = {"method", "url", "params", "body"}
    /\ rr_out.ret = None /\ rr_out.sent = <<>>

\* C2: a response whose status is not 200 makes replay_request return None,
\* and a call that got a response issued exactly one HTTP request (no retry).
C2_Non200ReturnsNoneOnce ==
    /\ ReplayDone => Len(rr_out.sent) <= 1
    /\ ReplayAnswered
          => /\ Len(rr_out.sent) = 1
             /\ rr_resp.status # 200 => rr_out.ret = None /\ ~rr_out.raised

C2_Witness ==
    /\ ReplayAnswered
    /\ rr_resp.status = 404 /\ rr_resp.text.kind = "obj"
    /\ rr_out.ret = None /\ Len(rr_out.sent) = 1

\* C3: status 200 with a body that is not JSON gives None without raising;
\* status 200 with a JSON body gives the decoded value (for an object the
\* mapping of its keys, the last occurrence of a key winning).
C3_Status200Json ==
    (ReplayAnswered /\ rr_resp.status = 200)
        => /\ ~rr_out.raised
           /\ rr_resp.text.kind \in {"bad", "empty"} => rr_out.ret = None
           /\ rr_resp.text.kind = "null" => rr_out.ret = None
           /\ rr_resp.text.kind = "arr" =>
                 rr_out.ret.t = "list" /\ rr_out.ret.items = rr_resp.text.pairs
           /\ rr_resp.text.kind = "obj" =>
                 /\ rr_out.ret.t = "dict"
                 /\ AsMap(rr_out.ret.items) = AsMap(rr_resp.text.pairs)
                 /\ Len(rr_out.ret.items) = Cardinality(DOMAIN AsMap(rr_resp.text.pairs))

C3_Witness ==
    /\ ReplayAnswered /\ rr_resp.status = 200
    /\ rr_resp.text.kind = "bad"
    /\ rr_out.ret = None /\ ~rr_out.raised

\* C4: for a record with a params field P and an override O the parameters
\* sent are P with O merged on top (a null P counts as the empty mapping);
\* without overrides they are P; the record's own params are left as they were.
C4_P == IF request_data.params.none THEN EmptyMap ELSE request_data.params.m
C4_O == IF modified_params.none THEN EmptyMap ELSE modified_params.m
C4_ParamsMerged ==
    (ReplayDone /\ rr_out.sent # <<>> /\ "params" \in request_data.has)
        => /\ rr_out.sent[1].hasParams
           /\ DOMAIN rr_out.sent[1].params = DOMAIN C4_P \cup DOMAIN C4_O
           /\ \A k \in DOMAIN C4_O : rr_out.sent[1].params[k] = C4_O[k]
           /\ \A k \in DOMAIN C4_P \ DOMAIN C4_O : rr_out.sent[1].params[k] = C4_P[k]
           /\ (modified_params.none \/ C4_O = EmptyMap) => rr_out.sent[1].params = C4_P
           /\ rr_out.after = request_data

C4_Witness ==
    /\ ReplayDone /\ rr_out.sent # <<>> /\ "params" \in request_data.has
    /\ C4_P = [k \in {"page", "size"} |-> "1"]
    /\ C4_O = [k \in {"page"} |-> "2"]
    /\ rr_out.sent[1].params = [k \in {"page", "size"} |-> IF k = "page" THEN "2" ELSE "1"]

-----------------------------------------------------------------------------
(* Claims about replay_with_modifications, under SpecBatch.                *)

\* the pairs <<request, variation>> in log order, variations in input order
AllPairs(n, m) == [k \in 1..(n * m) |-> <<((k - 1) \div m) + 1, ((k - 1) % m) + 1>>]

\* C5: replay_with_modifications issues one replay for every pair (captured
\* request, variation), requests in log order and variations in input order,
\* and returns every result other than None, in that order.
C5_AllNonNullResultsReturned ==
    (rb_pc = "done" /\ captured # <<>>)
        => /\ rb_issued = AllPairs(Len(captured), Len(param_variations))
           /\ rb_ret = rb_rets

-----------------------------------------------------------------------------
(* Claims about the Keyword Driver, under SpecDriver.                      *)

\* captured[0] was loaded: the capture log was loadable and not empty
BaselineLoaded == d_baseline # NoRecord
BaselineHasBody == BaselineLoaded /\ "body" \in d_baseline.has
\* the baseline body as a decoded value
BaselineIsJson == BaselineHasBody /\ d_baseline.body.kind \in {"obj", "arr", "null"}
BaselineIsObject == BaselineHasBody /\ d_baseline.body.kind = "obj"

RECURSIVE ReplayedKeywords(_)
\* the keywords replay_request was called for, in call order
ReplayedKeywords(iters) ==
    IF iters = <<>> THEN <<>>
    ELSE LET rest == ReplayedKeywords(SubSeq(iters, 1, Len(iters) - 1))
         IN IF iters[Len(iters)].replayed
            THEN Append(rest, iters[Len(iters)].keyword) ELSE rest

\* the keywords of the list other than the baseline, in list order
OtherKeywords == SelectSeq(SEARCH_KEYWORDS, LAMBDA k : k # "pingguo")

IsPrefix(a, b) == Len(a) <= Len(b) /\ a = SubSeq(b, 1, Len(a))

\* C6: the request replayed for keyword k has a JSON body whose keywords
\* field is k and whose other fields are those of the baseline body,
\* whatever keywords came before; url, method and headers are the baseline's.
C6_DerivedRequest ==
    \A n \in DOMAIN d_iters :
        d_iters[n].replayed =>
            LET e == d_iters[n]
                sm == AsMap(e.sent.data.pairs)
                bm == AsMap(d_baseline.body.pairs)
            IN /\ e.sent.hasData /\ e.sent.data.kind = "obj"
               /\ DOMAIN sm = DOMAIN bm \cup {"keywords"}
               /\ sm["keywords"] = e.keyword
               /\ \A f \in DOMAIN bm \ {"keywords"} : sm[f] = bm[f]
               /\ e.sent.url = d_baseline.url
               /\ e.sent.method = d_baseline.method
               /\ e.sent.headers = d_baseline.headers

C6_Witness ==
    /\ variant = "root"
    /\ Len(d_iters) = 2
    /\ d_iters[1].replayed /\ d_iters[2].replayed
    /\ d_baseline.body = SearchBody
    /\ AsMap(d_iters[2].sent.data.pairs) =
          [f \in {"keywords", "page"} |-> IF f = "page" THEN "1" ELSE d_iters[2].keyword]

C8_DelayBetweenReplays ==
    \A n, m \in DOMAIN d_iters :
        (n < m /\ d_iters[n].replayed /\ d_iters[m].replayed) => d_iters[n].slept

\* C9, for the runs that entered the keyword loop (d_k >= 1): a baseline
\* body that is not valid JSON abandons only the keyword being processed (no
\* replay, no result file): the loop goes on to the next keyword and the run
\* is not aborted.
C9_MalformedBodySkipsKeywordOnly ==
    (d_pc = "done" /\ d_k >= 1 /\ BaselineHasBody /\ d_baseline.body.kind = "bad")
        => /\ Len(d_iters) = Len(OtherKeywords)
           /\ \A n \in DOMAIN d_iters :
                 ~d_iters[n].replayed /\ result_files[d_iters[n].keyword] = NoFile

\* C10, for the keywords whose result file write did not fail: after the
\* run the result file of a keyword whose replay returned a decoded JSON
\* response R holds exactly R, and a keyword whose replay returned None
\* has no result file.
C10_ResultFileHoldsResponse ==
    d_pc = "done" =>
        \A n \in DOMAIN d_iters :
            (d_iters[n].replayed /\ d_iters[n].wrote # "failed") =>
                IF d_iters[n].ret = None
                THEN result_files[d_iters[n].keyword] = NoFile
                ELSE /\ json_loads(result_files[d_iters[n].keyword]).err = ""
                     /\ json_loads(result_files[d_iters[n].keyword]).val = d_iters[n].ret

\* C11, for a baseline body that decodes to a JSON object: no exception
\* raised while a keyword is processed ends the keyword loop, so once the
\* loop has started every keyword other than the baseline is attempted.
C11_EveryKeywordAttempted ==
    (d_pc = "done" /\ d_k >= 1 /\ BaselineIsObject)
        => /\ Len(d_iters) = Len(OtherKeywords)
           /\ \A n \in DOMAIN d_iters : d_iters[n].keyword = OtherKeywords[n]

-----------------------------------------------------------------------------
(* Claims about the Extractor, under SpecExtract.                          *)

\* the run wrote products.json
CatalogWritten == x_pc = "done" /\ x_end = "ok"

\* the list products.json holds for a keyword
CatalogList(keyword) ==
    IF x_catalog.state = "ok" /\ keyword \in DOMAIN x_catalog.map
    THEN x_catalog.map[keyword] ELSE <<>>

\* the keyword a result file is named after: what stands between the
\* leading prefix and the trailing suffix of its name
NamedAfter(name) == SubSeq(name, 2, Len(name) - 1)

\* a keyword that contains neither the prefix nor the suffix text
Ordinary(keyword) == \A n \in DOMAIN keyword : keyword[n] \notin {Prefix, Suffix}

\* the file decodes and contains the path data.b2c.onSaleList
HoldsList(name) ==
    /\ x_files[name].valid
    /\ x_files[name].data = "dict"
    /\ x_files[name].b2c = "dict"
    /\ x_files[name].onSaleList = "list"

RECURSIVE Occurrences(_)
\* the items of the scanned files that hold a list, in scan order and item
\* order, each with the file it stands in
Occurrences(scan) ==
    IF scan = <<>> THEN <<>>
    ELSE LET name == scan[Len(scan)]
             rest == Occurrences(SubSeq(scan, 1, Len(scan) - 1))
         IN IF HoldsList(name)
            THEN rest \o [n \in DOMAIN x_files[name].items |->
                            [file |-> name, item |-> x_files[name].items[n]]]
            ELSE rest

\* a ProductRecord is the record of an item
RecordOf(record, item) ==
    /\ record.item = item.goodsName
    /\ record.price.hundredths < 100
    /\ record.price.units * 100 + record.price.hundredths = item.memberPrice

SameRecord(a, b) == a.goodsName = b.goodsName /\ a.memberPrice = b.memberPrice

\* the positions in occ of the first occurrences that stand in a file
FirstsOf(occ, name) ==
    SelectSeq([n \in DOMAIN occ |-> n],
              LAMBDA n : /\ occ[n].file = name
                         /\ \A m \in 1..(n - 1) : ~SameRecord(occ[m].item, occ[n].item))

NoDuplicate(list) ==
    \A a, b \in DOMAIN list :
        a # b => <<list[a].item, list[a].price>> # <<list[b].item, list[b].price>>

\* C13: in the aggregated catalog (as accumulated and as written), for
\* every keyword no two records of the keyword's list have the same
\* (name, price) identity key.
C13_NoDuplicateInAKeywordsList ==
    /\ \A keyword \in DOMAIN products : NoDuplicate(products[keyword])
    /\ x_catalog.state = "ok" =>
          \A keyword \in DOMAIN x_catalog.map : NoDuplicate(x_catalog.map[keyword])

\* two files of the same keyword both hold {A, 500}; the list holds it once
C13_Witness ==
    /\ CatalogWritten
    /\ Len(x_scan) = 2
    /\ KeywordOf(x_scan[1]) = KeywordOf(x_scan[2])
    /\ \A n \in DOMAIN x_scan :
          /\ HoldsList(x_scan[n])
          /\ \E i \in DOMAIN x_files[x_scan[n]].items :
                x_files[x_scan[n]].items[i] = Item(ItemFields, "A", 500)
    /\ Len(SelectSeq(CatalogList(<<"xiangjiao">>), LAMBDA r : r.item = "A")) = 1

\* C14: de-duplication is scoped to a keyword: every (name, price) pair
\* that occurs in the result files of a keyword stands exactly once in the
\* keyword's list, whatever the other keywords' files hold and whatever the
\* scan order.
C14_DeduplicationPerKeyword ==
    CatalogWritten =>
        \A name \in DOMAIN x_files :
            HoldsList(name) =>
                \A i \in DOMAIN x_files[name].items :
                    Len(SelectSeq(CatalogList(KeywordOf(name)),
                                  LAMBDA r : RecordOf(r, x_files[name].items[i]))) = 1

\* every item of every list has goodsName and memberPrice
ItemsComplete ==
    \A name \in DOMAIN x_files :
        \A i \in DOMAIN x_files[name].items :
            ItemFields \subseteq x_files[name].items[i].has

\* C15: a result file that lacks the path data.b2c.onSaleList at any level
\* (a data or b2c value that is null included) contributes no product and
\* raises no error: when every file decodes and every item is complete, all
\* the files are scanned and the catalog is written (unless the write of
\* products.json itself fails), holding records of the files with a list.
C15_FileWithoutPathIsSkipped ==
    (x_pc = "done" /\ x_end # "write_error" /\ ItemsComplete
        /\ \A name \in DOMAIN x_files : x_files[name].valid)
        => /\ x_end = "ok"
           /\ Len(x_scan) = Cardinality(DOMAIN x_files)
           /\ \A keyword \in DOMAIN x_catalog.map :
                 \E name \in DOMAIN x_files :
                    HoldsList(name) /\ KeywordOf(name) = keyword

\* some item of some onSaleList lacks goodsName or memberPrice
SomeItemIncomplete ==
    \E name \in DOMAIN x_files :
        /\ HoldsList(name)
        /\ \E i \in DOMAIN x_files[name].items :
              ~(ItemFields \subseteq x_files[name].items[i].has)

\* C16: if an item of an onSaleList lacks goodsName or memberPrice, the run
\* ends with the top-level error and writes no catalog: products.json is
\* as the run found it.
C16_IncompleteItemAbortsRun ==
    (x_pc = "done" /\ SomeItemIncomplete)
        => /\ x_end = "error"
           /\ x_catalog = x_before

\* a file with products was scanned, then one whose second item lacks a
\* field; the earlier products.json is untouched
C16_Witness ==
    /\ x_pc = "done"
    /\ x_run = "first"
    /\ x_before = OldCatalog
    /\ x_catalog = OldCatalog
    /\ Len(x_scan) = 2
    /\ DOMAIN products # {}
    /\ HoldsList(x_scan[2])
    /\ Len(x_files[x_scan[2]].items) = 2
    /\ ItemFields \subseteq x_files[x_scan[2]].items[1].has
    /\ ~(ItemFields \subseteq x_files[x_scan[2]].items[2].has)

\* the keywords of the scanned files that hold items
ListedKeywords(occ) ==
    {KeywordOf(occ[n].file) : n \in DOMAIN occ}

\* the list of a keyword, computed from the scanned files: the first
\* occurrences that stand in the keyword's files
ComputedList(occ, keyword) ==
    LET firsts == SelectSeq([n \in DOMAIN occ |-> n],
                     LAMBDA n : /\ KeywordOf(occ[n].file) = keyword
                                /\ \A m \in 1..(n - 1) :
                                      ~SameRecord(occ[m].item, occ[n].item))
    IN [n \in DOMAIN firsts |-> Product(occ[firsts[n]].item)]

\* C17: after a run that completes without error, products.json holds
\* exactly the mapping computed from the result files on disk: nothing of
\* its previous content is merged in, with no result file it holds the
\* empty mapping, and a second run over the same files writes the same
\* content as the first.
C17_CatalogRebuiltFromFiles ==
    CatalogWritten =>
        /\ x_catalog.state = "ok"
        /\ LET occ == Occurrences(x_scan)
           IN /\ \A keyword \in DOMAIN x_catalog.map :
                    /\ x_catalog.map[keyword] # <<>>
                    /\ x_catalog.map[keyword] = ComputedList(occ, keyword)
              /\ \A keyword \in ListedKeywords(occ) :
                    ComputedList(occ, keyword) # <<>> => keyword \in DOMAIN x_catalog.map
        /\ x_files = <<>> => DOMAIN x_catalog.map = {}
        /\ (x_run = "second" /\ x_first.end = "ok") => x_catalog = x_first.catalog

-----------------------------------------------------------------------------
(* Claims about the Capture Addon, under SpecCapture.                      *)

\* C18: every record of the captured sequence, and of the persisted
\* capture log, belongs to a transaction whose URL contains the marker
\* searchGoods; a request whose URL lacks the marker appends no record and
\* writes no file.
C18_OnlyMarkerTransactionsCaptured ==
    /\ \A n \in DOMAIN self_captured_requests :
          self_captured_requests[n].url = SearchUrl
    /\ capture_file.state = "ok" =>
          \A n \in DOMAIN capture_file.records :
             capture_file.records[n].url = JsonString(SearchUrl)
    /\ (p_last.hook = "request" /\ p_last.flow.url # SearchUrl) =>
          /\ self_captured_requests = p_last.list
          /\ capture_file = p_last.file
          /\ search_results = p_last.snapshot
          /\ ~p_last.wrote

\* two marker requests were captured and logged, then a request to a URL
\* that holds `search` but not the marker came
C18_Witness ==
    /\ Len(self_captured_requests) = 2
    /\ capture_file = [state |-> "ok", records |-> json_dump_records(self_captured_requests)]
    /\ p_last.hook = "request"
    /\ p_last.flow.url = SuggestUrl

\* the request of the last hook invocation failed: its body is not UTF-8,
\* or the capture log does not hold the list after the write
RequestFailed ==
    /\ p_last.hook = "request"
    /\ p_last.flow.url = SearchUrl
    /\ \/ p_last.flow.content.kind = "undecodable"
       \/ capture_file # [state |-> "ok", records |-> json_dump_records(self_captured_requests)]

\* C19: a request-side capture failure (undecodable body, failed file
\* write) is logged and only that transaction is skipped: the request hook
\* raises nothing to the proxy host and the captured sequence is as it was
\* before the failed transaction.
C19_RequestFailureIsContained ==
    /\ p_last.hook = "request" => ~p_last.raised
    /\ RequestFailed =>
          /\ p_last.log # ""
          /\ self_captured_requests = p_last.list

\* C20, as claimed: the snapshot holds the decoded body of the most recent
\* qualifying response; a response that does not qualify leaves it
\* unchanged, and no response raises anything.
C20_SnapshotHoldsLastQualifyingResponse ==
    /\ p_recent.any => json_loads(search_results) = [err |-> "", val |-> p_recent.val]
    /\ (p_last.hook = "response" /\ ~Qualifying(p_last.flow)) =>
          search_results = p_last.snapshot
    /\ p_last.hook = "response" => ~p_last.raised

\* C20, amended: the snapshot, when it holds JSON, holds the decoded body
\* of the most recent qualifying response whose write succeeded; a
\* qualifying response either is written, or its write fails and leaves the
\* snapshot as it was or truncated; a response that does not qualify leaves
\* the snapshot unchanged and opens no file; no response raises anything.
C20_SnapshotHoldsLastStoredResponse ==
    /\ search_results.kind \notin {"none", "bad"} =>
          /\ p_stored.any
          /\ json_loads(search_results) = [err |-> "", val |-> p_stored.val]
    /\ (p_last.hook = "response" /\ Qualifying(p_last.flow)) =>
          \/ /\ json_loads(search_results) = [err |-> "", val |-> p_recent.val]
             /\ p_stored = p_recent
          \/ search_results = p_last.snapshot
          \/ search_results = BadText
    /\ (p_last.hook = "response" /\ ~Qualifying(p_last.flow)) =>
          /\ search_results = p_last.snapshot
          /\ ~p_last.wrote
    /\ p_last.hook = "response" => ~p_last.raised

\* a qualifying response has replaced the snapshot of an earlier one
C20_Witness ==
    /\ p_last.hook = "response"
    /\ Qualifying(p_last.flow)
    /\ p_last.snapshot.kind = "obj"
    /\ search_results # p_last.snapshot
    /\ json_loads(search_results) = [err |-> "", val |-> p_recent.val]

\* the persisted capture log holds exactly the list
LogHolds(list) ==
    capture_file = [state |-> "ok", records |-> json_dump_records(list)]

\* C21: request capture is append-only and ordered: a matching request
\* whose hook returns has appended exactly one record at the end of the
\* captured sequence, no hook removes, reorders or modifies an earlier
\* record, and after a request hook has returned the persisted capture log
\* equals the whole captured sequence.
C21_AppendOnlyAndLogEqualsSequence ==
    /\ IsPrefix(p_last.list, self_captured_requests)
    /\ (p_last.hook = "request" /\ ~p_last.raised) =>
          /\ p_last.flow.url = SearchUrl =>
                self_captured_requests =
                   Append(p_last.list,
                          CapturedRecord(p_last.flow, decode_content(p_last.flow.content).body))
          /\ self_captured_requests # <<>> => LogHolds(self_captured_requests)

-----------------------------------------------------------------------------
(* Claims about the readers of the capture log, under SpecReaders.         *)

C24_ReadersNeverWriteTheLog ==
    [][/\ (capture_file.state = "ok" /\ capture_file'.state = "ok") =>
             capture_file' = capture_file
       /\ x_files' = x_files]_vars

\* the request derived from the baseline for a keyword
DerivedRequest(keyword) ==
    [d_baseline EXCEPT !.body = SubstituteKeyword(json_loads(d_baseline.body).val, keyword)]

\* the derived requests of the keywords replayed in this run, in order
IssuedThisRun ==
    LET replayed == ReplayedKeywords(d_iters)
    IN [n \in DOMAIN replayed |-> DerivedRequest(replayed[n])]

\* C25: after a run that went through the whole keyword list and replayed
\* at least one keyword, the persisted list of the requests issued, when it
\* is readable, holds exactly the derived requests of the keywords replayed
\* in this run, in order, each as it was sent.
C25_PersistedListIsTheRequestsIssued ==
    (d_pc = "done" /\ d_end = "end" /\ ReplayedKeywords(d_iters) # <<>>
        /\ capture_file.state = "ok")
        => load_captured_requests(capture_file) = IssuedThisRun

-----------------------------------------------------------------------------
(* Claims about interleaved request hooks, under SpecHooks.                *)

\* the invocation appends a record: its URL holds the marker and its body
\* decodes
Appends(i) ==
    HasSearchGoods(h_flow[i].url) /\ decode_content(h_flow[i].content).err = ""

RecordAppendedBy(i) ==
    CapturedRecord(h_flow[i], decode_content(h_flow[i].content).body)

\* C26: whatever the interleaving of the steps, once every invocation has
\* returned (or raised before its append) the persisted capture log holds
\* every appended record exactly once: as many copies of a record as
\* invocations appended it, and nothing else.
C26_NoRecordLostByInterleaving ==
    (\A i \in DOMAIN h_pc : h_pc[i] \in {"returned", "raised"}) =>
        LET log == load_captured_requests(capture_file)
            appenders == {i \in DOMAIN h_pc : Appends(i)}
        IN /\ Len(log) = Cardinality(appenders)
           /\ \A i \in appenders :
                 Cardinality({n \in DOMAIN log : log[n] = RecordAppendedBy(i)})
                    = Cardinality({k \in appenders :
                                      RecordAppendedBy(k) = RecordAppendedBy(i)})

\* two invocations with different bodies: the first appended, the second
\* appended and wrote, then the first wrote; both have returned
C26_Witness ==
    /\ h_steps = <<1, 2, 2, 1>>
    /\ h_pc = <<"returned", "returned">>
    /\ RecordAppendedBy(1) # RecordAppendedBy(2)
    /\ Len(load_captured_requests(capture_file)) = 2

-----------------------------------------------------------------------------
(* Claims about the files that pass from the Keyword Driver to the         *)
(* Extractor.                                                              *)

\* C27: a replay is issued only after the baseline keyword's result file
\* has been written, and the file the driver wrote is a search result: it
\* contains the path data.b2c.onSaleList, so that the Extractor reads the
\* baseline keyword's products from it.
C27_BaselineFileIsASearchResult ==
    /\ (\E n \in DOMAIN d_iters : d_iters[n].replayed) =>
          result_files[BaselineKeyword] # NoFile
    /\ result_files[BaselineKeyword].kind = "obj" =>
          HasPath(DocOfText(result_files[BaselineKeyword])) = "yes"

\* C28: the catalog key of every result file scanned is the keyword the
\* file is named after, whatever text the keyword contains, and two files
\* named after different keywords never get the same key.
C28_FileNameRoundTrip ==
    /\ \A n \in DOMAIN x_scan : KeywordOf(x_scan[n]) = NamedAfter(x_scan[n])
    /\ \A n, m \in DOMAIN x_scan :
          NamedAfter(x_scan[n]) # NamedAfter(x_scan[m]) =>
             KeywordOf(x_scan[n]) # KeywordOf(x_scan[m])

-----------------------------------------------------------------------------
(* Claims about start_automation_workflow, under SpecWorkflow.             *)

\* C29: when the call has ended it has returned True or False, True exactly
\* when the preparation succeeded and start_automation returned True, and
\* checker.cleanup() has been called.
C29_TrueOnlyAfterSuccessfulAutomation ==
    w_pc = "done" =>
        /\ w_ret \in {"True", "False"}
        /\ w_ret = "True" <=> (w_prepared = "True" /\ w_automation = "True")
        /\ w_cleanup >= 1

=============================================================================
